---- MODULE Spec2Model ----
(***************************************************************************)
(* A model of flux (src/flux/flux.py): TraitBag, StateMachine,             *)
(* TraitMachine, the capability gate `can` and the trait-set dispatch      *)
(* registry.  Python dicts are functions (DOMAIN = the keys), Python sets  *)
(* are sets, iterables handed to set()/frozenset() are sequences, and a    *)
(* raised exception is the value of `ret` after the call.                  *)
(***************************************************************************)
EXTENDS Integers, Sequences, FiniteSets, TLC

VARIABLES
    cargs,   \* the arguments the constructor was called with
    thing,   \* the object: a record of its attributes (kind "new": not yet constructed)
    ret,     \* what the last call did: "None", "True", "False" or the exception raised
    last,    \* the last call: its name, its argument, and the object and events before it
    events,  \* in order: "invoke" (the gated behaviour ran), "warn" (a diagnostic of
             \* the gate), the text of a warning of a constructor
    d,       \* the module's dispatch registry: key -> the number of a function in funcs
    funcs,   \* the functions decorated so far, in order
    ran,     \* the function the last dispatching call invoked (0: none)
    objs,    \* the objects a prototype was cloned into, their bag attribute an address
    counters,     \* the Counter objects, by address
    cloned_from,  \* for each of objs the object it is a clone of (0: constructed)
    clone_names,  \* for each of objs the name its clone call was given (None: no name)
    built,   \* for each of objs the children its constructor call was given and
             \* what the call did ("None": it returned, or the exception raised)
    held,    \* the objects the program holds a reference to
    walking  \* the generator of the last walk: its root, the frames of the nested
             \* generators (a node and its children still to visit), the nodes yielded

vars == <<cargs, thing, ret, last, events, d, funcs, ran, objs, counters, cloned_from,
          clone_names, built, held, walking>>

\* the objects on the heap: prototypes, clones, trees
hvars == <<objs, counters, cloned_from, clone_names, built, held, walking>>

\* the dispatch registry and what belongs to it
dvars == <<d, funcs, ran>>

----------------------------------------------------------------------------
(* Tokens.  The runtime only compares them. *)

None == "None"

\* IS of src/enums/PL.py (three of its five states)
IS == {"ready", "working", "destroyed"}

\* BE of src/enums/PL.py (two of its five traits)
BE == {"destroyed", "selected"}

\* the generated name: uuid1() is modelled by one opaque value
Uuid == "uuid1()"

----------------------------------------------------------------------------
(* Bounds *)

\* gated calls in one behaviour
MaxCalls == 3

\* stereotypes handed to one constructor
MaxStereo == 2

\* length of an iterable of tokens handed to set() or frozenset()
MaxLen == 2

\* functions decorated by fdispatch or mdispatch in one behaviour
MaxReg == 2

\* clones made in one behaviour
MaxClones == 2

\* the largest count a bag holds for one token
MaxCount == 2

\* objects on the heap of a tree: constructed machines and clones
MaxNodes == 4

\* references the program gives up
MaxDrops == 2

\* clones among the machines of a tree
MaxCopies == 1

----------------------------------------------------------------------------
(* Python helpers *)

Range(s) == {s[i] : i \in DOMAIN s}

SeqsUpTo(S, n) == UNION {[1..k -> S] : k \in 0..n}

\* dict.update: the entries of d2 are written over those of d1
Update(d1, d2) ==
    [k \in DOMAIN d1 \cup DOMAIN d2 |-> IF k \in DOMAIN d2 THEN d2[k] ELSE d1[k]]

\* dict.get(k, default)
Get(dict, k, default) == IF k \in DOMAIN dict THEN dict[k] ELSE default

\* a dict with the keys K and values in V, every one of them
Dicts(K, V) == UNION {[D -> V] : D \in SUBSET K}

EmptyDict == [k \in {} |-> {}]

\* Counter(()): no token has a count
EmptyBag == [k \in {} |-> 0]

\* {t for S in stereotypes for t in S}, one stereotype after the other
RECURSIVE Unpack(_)
Unpack(stereotypes) ==
    IF stereotypes = <<>> THEN {}
    ELSE Unpack(SubSeq(stereotypes, 1, Len(stereotypes) - 1))
             \cup stereotypes[Len(stereotypes)]

\* a faulty Compose: the excludes are taken away before the includes are added
ComposeExcludeFirst(stereotypes, in_traits, ex_traits) ==
    (Unpack(stereotypes) \ Range(ex_traits)) \cup Range(in_traits)

\* a faulty Compose: the excludes are not taken away
ComposeNoExclude(stereotypes, in_traits, ex_traits) ==
    Unpack(stereotypes) \cup Range(in_traits)

\* traits = {...}; traits.update(set(in_traits)); traits.difference_update(set(ex_traits))
Compose(stereotypes, in_traits, ex_traits) ==
    LET t0 == Unpack(stereotypes)
        t1 == t0 \cup Range(in_traits)
    IN  t1 \ Range(ex_traits)

----------------------------------------------------------------------------
(* Constructors: the attributes of the object built from the arguments a *)

\* self.parent = None: a reference is the number of an object on the heap, and
\* the reference that refers to no object is 0
NoRef == 0

TraitBagInit(a) ==
    [kind   |-> "TraitBag",
     name   |-> IF a.name = None THEN Uuid ELSE a.name,
     bag    |-> a.bag,
     traits |-> Compose(a.stereotypes, a.in_traits, a.ex_traits)]

StateMachineInit(a) ==
    [kind   |-> "StateMachine",
     name   |-> IF a.name = None THEN Uuid ELSE a.name,
     states |-> Update(IF a.final # None THEN [k \in {a.final} |-> {}] ELSE EmptyDict,
                       a.states),
     state  |-> a.first]

TraitMachineInit(a) ==
    LET stateful  == Update([k \in {a.first, a.final} |-> {}], a.stateful_traits)
        stateless == Compose(a.stereotypes, a.in_traits, a.ex_traits)
    IN  [kind             |-> "TraitMachine",
         name             |-> a.name,
         stateful_traits  |-> stateful,
         states           |-> Update([k \in {a.final} |-> {}], a.states),
         stateless_traits |-> stateless,
         state            |-> a.first,
         bag              |-> a.bag,
         traits           |-> stateless \cup stateful[a.first],
         children         |-> a.children,
         parent           |-> NoRef]

\* the text of the warning of TraitMachine.__init__
NoTraitsWarning == "Thing has no traits!"

\* a faulty Warns: only the stateless traits are looked at
WarnsStateless(th) == th.stateless_traits = {}

\* self.traits == set(), the condition of the warning of TraitMachine.__init__
Warns(th) == th.traits = {}

\* the diagnostics after TraitMachine.__init__ built th
Warned(th, ev) == IF Warns(th) THEN Append(ev, NoTraitsWarning) ELSE ev

----------------------------------------------------------------------------
(* flux_to: the object after the call and what the call returned or raised *)

HasAttr(th, attr) == attr \in DOMAIN th

\* a faulty Successor: the current state is always its own successor
SuccessorOrSelf(states, state, to_state) ==
    to_state = state \/ to_state \in states[state]

\* to_state in self.states[self.state]
Successor(states, state, to_state) == to_state \in states[state]

StateMachine_flux_to(th, to_state) ==
    IF th.state \notin DOMAIN th.states
    THEN [thing |-> th, ret |-> "KeyError"]
    ELSE IF Successor(th.states, th.state, to_state)
    THEN [thing |-> [th EXCEPT !.state = to_state], ret |-> "True"]
    ELSE [thing |-> th, ret |-> "False"]

\* a faulty Overlay: the traits of a state without an entry are those of the
\* state the machine leaves
OverlayKept(stateful_traits, state, old) ==
    IF state \in DOMAIN stateful_traits THEN stateful_traits[state]
    ELSE Get(stateful_traits, old, {})

\* self.stateful_traits.get(self.state, set()), self.state already the new state
Overlay(stateful_traits, state, old) == Get(stateful_traits, state, {})

TraitMachine_flux_to(th, to_state) ==
    IF th.state \notin DOMAIN th.states
    THEN [thing |-> th, ret |-> "KeyError"]
    ELSE IF Successor(th.states, th.state, to_state)
    THEN [thing |-> [th EXCEPT
                        !.state = to_state,
                        !.traits = th.stateless_traits
                                     \cup Overlay(th.stateful_traits, to_state, th.state)],
          ret |-> "True"]
    ELSE [thing |-> th, ret |-> "False"]

\* thing.flux_to(...): the method of the object's class, if it has one
Call_flux_to(th, to_state) ==
    CASE th.kind = "StateMachine" -> StateMachine_flux_to(th, to_state)
      [] th.kind = "TraitMachine" -> TraitMachine_flux_to(th, to_state)
      [] OTHER -> [thing |-> th, ret |-> "AttributeError"]

----------------------------------------------------------------------------
(* The capability gate and the gated behaviour of src/enums/PL.py *)

\* @can(BE.destroyed)
DestroyTrait == "destroyed"

\* destroy: thing.flux_to(IS.destroyed), its result dropped, then a print
destroy(th) ==
    LET r == Call_flux_to(th, "destroyed")
    IN  [thing |-> r.thing,
         ret   |-> IF r.ret \in {"True", "False"} THEN "None" ELSE r.ret]

\* a faulty Permitted: the gate lets every call through
PermittedAlways(trait, traits) == TRUE

\* trait in thing.traits
Permitted(trait, traits) == trait \in traits

\* calling(self, thing) of can(trait)(method): the object, the events and the result.
\* The diagnostic is formatted from thing.name and thing.state before warn is called.
calling(trait, th, ev) ==
    IF ~HasAttr(th, "traits")
    THEN [thing |-> th, events |-> ev, ret |-> "AttributeError"]
    ELSE IF Permitted(trait, th.traits)
    THEN LET r == destroy(th)
         IN  [thing |-> r.thing, events |-> Append(ev, "invoke"), ret |-> r.ret]
    ELSE IF ~(HasAttr(th, "name") /\ HasAttr(th, "state"))
    THEN [thing |-> th, events |-> ev, ret |-> "AttributeError"]
    ELSE [thing |-> th, events |-> Append(ev, "warn"), ret |-> "None"]

----------------------------------------------------------------------------
(* Actions *)

Machines == {"StateMachine", "TraitMachine"}

\* thing.flux_to(to_state)
flux_to(to_state) ==
    /\ thing.kind \in Machines
    /\ LET r == Call_flux_to(thing, to_state)
       IN  /\ thing' = r.thing
           /\ ret' = r.ret
    /\ last' = [op |-> "flux_to", arg |-> to_state, before |-> thing, events |-> events]
    /\ UNCHANGED <<cargs, events>>
    /\ UNCHANGED dvars
    /\ UNCHANGED hvars

\* destroy(actor, thing), the behaviour wrapped by can(BE.destroyed)
gated_destroy ==
    /\ thing.kind \in {"TraitMachine", "TraitBag"}
    /\ Len(events) < MaxCalls
    /\ LET r == calling(DestroyTrait, thing, events)
       IN  /\ thing' = r.thing
           /\ events' = r.events
           /\ ret' = r.ret
    /\ last' = [op |-> "destroy", arg |-> DestroyTrait, before |-> thing, events |-> events]
    /\ UNCHANGED cargs
    /\ UNCHANGED dvars
    /\ UNCHANGED hvars

----------------------------------------------------------------------------
(* Constructor arguments *)

Defaults ==
    [cls |-> "TraitMachine", name |-> "thing", states |-> EmptyDict, first |-> None,
     final |-> None, stereotypes |-> <<>>, in_traits |-> <<>>, ex_traits |-> <<>>,
     stateful_traits |-> EmptyDict, bag |-> EmptyBag, children |-> {}]

\* a state machine of either class over every transition table of IS
MachineArgs ==
    {[Defaults EXCEPT !.cls = c, !.states = T, !.first = f, !.final = fin,
                      !.name = IF c = "StateMachine" THEN None ELSE "thing"] :
        c \in Machines, T \in Dicts(IS, SUBSET IS), f \in IS, fin \in IS \cup {None}}

\* the tables of an entity that is ready or working until it is destroyed
Lifecycles ==
    {[s \in {"ready", "working"} |-> IF s = "ready" THEN r ELSE w] :
        r \in SUBSET {"working", "destroyed"}, w \in SUBSET {"ready", "destroyed"}}

OneOrNone(S) == {<<>>} \cup {<<t>> : t \in S}

\* a trait machine with stateless traits and an overlay for the state working
EntityArgs ==
    {[Defaults EXCEPT !.states = T, !.first = f, !.final = "destroyed",
                      !.in_traits = i, !.ex_traits = e, !.stateful_traits = o] :
        T \in Lifecycles, f \in {"ready", "working"}, i \in OneOrNone(BE),
        e \in OneOrNone({"destroyed"}), o \in Dicts({"working"}, SUBSET BE)}

\* a stateless trait bag
BagArgs ==
    {[Defaults EXCEPT !.cls = "TraitBag", !.name = None, !.in_traits = i, !.ex_traits = e] :
        i \in OneOrNone(BE), e \in OneOrNone({"destroyed"})}

Construct(a) ==
    CASE a.cls = "TraitBag" -> TraitBagInit(a)
      [] a.cls = "StateMachine" -> StateMachineInit(a)
      [] a.cls = "TraitMachine" -> TraitMachineInit(a)

Fresh ==
    /\ ret = "None"
    /\ last = [op |-> "init", arg |-> None, before |-> thing, events |-> <<>>]
    /\ events = <<>>
    /\ d = EmptyDict
    /\ funcs = <<>>
    /\ ran = 0

\* no walk has been started
Idle == [active |-> FALSE, root |-> 0, stack |-> <<>>, out |-> <<>>]

\* no prototype has been cloned and no tree built
NoClones ==
    /\ objs = <<>>
    /\ counters = <<>>
    /\ cloned_from = <<>>
    /\ clone_names = <<>>
    /\ built = <<>>
    /\ held = {}
    /\ walking = Idle

----------------------------------------------------------------------------
(* State machines: every table, every first and final state, then flux_to *)

Init ==
    /\ cargs \in MachineArgs
    /\ thing = Construct(cargs)
    /\ Fresh
    /\ NoClones

Next == \E to_state \in IS \cup {None} : flux_to(to_state)

Spec == Init /\ [][Next]_vars

----------------------------------------------------------------------------
(* Entities behind the gate: trait machines and trait bags, flux_to and destroy *)

GateInit ==
    /\ cargs \in EntityArgs \cup BagArgs
    /\ thing = Construct(cargs)
    /\ Fresh
    /\ NoClones

GateNext ==
    \/ \E to_state \in IS \cup {None} : flux_to(to_state)
    \/ gated_destroy

SpecGate == GateInit /\ [][GateNext]_vars

----------------------------------------------------------------------------
(* Composition: the arguments are drawn, then one of the constructors is called *)

\* stereotypes in every order, includes and excludes as iterables of tokens
ComposeArgs ==
    {[Defaults EXCEPT !.cls = c, !.name = IF c = "TraitBag" THEN None ELSE "thing",
                      !.first = "ready", !.stereotypes = S, !.in_traits = i,
                      !.ex_traits = e] :
        c \in {"TraitBag", "TraitMachine"}, S \in SeqsUpTo(SUBSET BE, MaxStereo),
        i \in SeqsUpTo(BE, MaxLen), e \in SeqsUpTo(BE, MaxLen)}

NotConstructed == [kind |-> "new"]

ComposeInit ==
    /\ cargs \in ComposeArgs
    /\ thing = NotConstructed
    /\ Fresh
    /\ NoClones

\* TraitBag(stereotypes=..., in_traits=..., ex_traits=...)
new_TraitBag ==
    /\ thing.kind = "new"
    /\ cargs.cls = "TraitBag"
    /\ thing' = TraitBagInit(cargs)
    /\ last' = [op |-> "TraitBag", arg |-> None, before |-> thing, events |-> events]
    /\ UNCHANGED <<cargs, ret, events>>
    /\ UNCHANGED dvars
    /\ UNCHANGED hvars

\* TraitMachine(**cargs)
new_TraitMachine ==
    /\ thing.kind = "new"
    /\ cargs.cls = "TraitMachine"
    /\ thing' = TraitMachineInit(cargs)
    /\ events' = Warned(thing', events)
    /\ last' = [op |-> "TraitMachine", arg |-> None, before |-> thing, events |-> events]
    /\ UNCHANGED <<cargs, ret>>
    /\ UNCHANGED dvars
    /\ UNCHANGED hvars

ComposeNext == new_TraitBag \/ new_TraitMachine

SpecCompose == ComposeInit /\ [][ComposeNext]_vars

----------------------------------------------------------------------------
(* Construction of an entity: a trait machine with or without traits is built *)

ConstructInit ==
    /\ cargs \in EntityArgs
    /\ thing = NotConstructed
    /\ Fresh
    /\ NoClones

SpecConstruct == ConstructInit /\ [][new_TraitMachine]_vars

----------------------------------------------------------------------------
(* The dispatch registry: d, fdispatch and mdispatch *)

\* the tokens the dispatched-on sets are made of (BE of src/enums/PL.py)
DispatchTokens == {"selected", "destroyed", "used"}

\* func.__qualname__ of the decorated functions and methods
Qualnames == {"P", "Q"}

\* frozenset(s), the key of fdispatch
FKey(s) == [qualname |-> None, traits |-> Range(s)]

\* a faulty MKey: the methods of every name share one table
MKeyUnnamed(qualname, s) == [qualname |-> "method", traits |-> Range(s)]

\* (func.__qualname__, frozenset(s)), the key of mdispatch
MKey(qualname, s) == [qualname |-> qualname, traits |-> Range(s)]

\* a faulty Lookup: without an entry for the exact set, the entry of a subset
LookupBestMatch(reg, key) ==
    IF key \in DOMAIN reg THEN reg[key]
    ELSE LET sub == {k \in DOMAIN reg :
                        k.qualname = key.qualname /\ k.traits \subseteq key.traits}
         IN  IF sub = {} THEN 0 ELSE reg[CHOOSE k \in sub : TRUE]

\* d[key]: the function registered under key, 0 for the KeyError of a missing key
Lookup(reg, key) == IF key \in DOMAIN reg THEN reg[key] ELSE 0

\* a faulty Store: the function first registered under a key stays
StoreIfAbsent(reg, key, f) ==
    IF key \in DOMAIN reg THEN reg ELSE Update(reg, [k \in {key} |-> f])

\* d[key] = func
Store(reg, key, f) == Update(reg, [k \in {key} |-> f])

\* what the decorated function f returns when it is called: a value of its own
ReturnOf(f) == f.qualname

\* the function named qualname is decorated: it is the next of funcs and is
\* written to d under key
Register(style, qualname, key) ==
    /\ Len(funcs) < MaxReg
    /\ funcs' = Append(funcs, [style |-> style, qualname |-> qualname,
                               traits |-> key.traits])
    /\ d' = Store(d, key, Len(funcs) + 1)
    /\ ran' = 0
    /\ ret' = "None"
    /\ last' = [op |-> style, arg |-> key, via |-> qualname, before |-> thing,
                events |-> events]
    /\ UNCHANGED <<cargs, thing, events>>
    /\ UNCHANGED hvars

\* call(first) and call(self, first) of the dispatcher that wraps the function
\* named via: d[key](...) is called and its result dropped, call has no return
Dispatch(op, via, key) ==
    /\ ran' = Lookup(d, key)
    /\ ret' = IF ran' = 0 THEN "KeyError" ELSE "None"
    /\ last' = [op |-> op, arg |-> key, via |-> via, before |-> thing,
                events |-> events]
    /\ UNCHANGED <<cargs, thing, events, d, funcs>>
    /\ UNCHANGED hvars

\* @fdispatch(s) on a function whose name is qualname
fdispatch(qualname, s) == Register("fdispatch", qualname, FKey(s))

\* @mdispatch(s) on a method whose __qualname__ is qualname
mdispatch(qualname, s) == Register("mdispatch", qualname, MKey(qualname, s))

\* a call of the dispatcher that fdispatch returned for the function qualname
fcall(qualname, first) ==
    /\ \E i \in DOMAIN funcs :
           funcs[i].style = "fdispatch" /\ funcs[i].qualname = qualname
    /\ Dispatch("fcall", qualname, FKey(first))

\* a call of the dispatcher that mdispatch returned for the method qualname
mcall(qualname, first) ==
    /\ \E i \in DOMAIN funcs :
           funcs[i].style = "mdispatch" /\ funcs[i].qualname = qualname
    /\ Dispatch("mcall", qualname, MKey(qualname, first))

DispatchInit ==
    /\ cargs = Defaults
    /\ thing = NotConstructed
    /\ Fresh
    /\ NoClones

\* the iterables of distinct tokens, in every order
Orders == {s \in SeqsUpTo(DispatchTokens, MaxLen) : Cardinality(Range(s)) = Len(s)}

\* the iterables the functions are registered for: the tokens of BE
RegOrders == {s \in Orders : Range(s) \subseteq BE}

DispatchNext ==
    \/ \E q \in Qualnames, s \in RegOrders : fdispatch(q, s)
    \/ \E q \in Qualnames, s \in RegOrders : mdispatch(q, s)
    \/ \E q \in Qualnames, first \in Orders : fcall(q, first)
    \/ \E q \in Qualnames, first \in Orders : mcall(q, first)

SpecDispatch == DispatchInit /\ [][DispatchNext]_vars

----------------------------------------------------------------------------
(* Prototypes and clones.  An attribute holds a reference: the bag attribute of *)
(* an object is the address of a Counter in counters.                          *)

\* OF of src/enums/PL.py (two of its three resources)
OF == {"water", "meat"}

\* c.name = uuid1: the function itself, it is not called
Uuid1Function == "<function uuid1>"

\* Counter(bag): a new Counter with the counts of bag
Counter(bag) == [k \in DOMAIN bag |-> bag[k]]

\* copy(self): a new object whose attributes refer to what self's attributes refer to
copy(self) == self

\* clone(self, name)
clone_of(self, name) ==
    [copy(self) EXCEPT !.name = IF name = None THEN Uuid1Function ELSE name]

\* the Counter the bag attribute of object i refers to
BagOf(i) == counters[objs[i].bag]

\* the bag of every object that has one
Bags == [i \in DOMAIN objs |-> IF HasAttr(objs[i], "bag") THEN BagOf(i) ELSE None]

\* the default of the name argument: None for TraitBag and StateMachine, "thing"
\* for TraitMachine
DefaultName(cls) == IF cls = "TraitMachine" THEN "thing" ELSE None

\* a prototype of each class, named or not, the bag of a TraitBag and of a
\* TraitMachine with or without water
PrototypeArgs ==
    {[Defaults EXCEPT !.cls = c, !.first = "ready", !.bag = b,
                      !.name = IF named THEN "prototype" ELSE DefaultName(c)] :
        c \in {"TraitBag", "TraitMachine"}, named \in BOOLEAN,
        b \in {EmptyBag} \cup {[k \in {"water"} |-> n] : n \in 1..MaxCount}}
    \cup
    {[Defaults EXCEPT !.cls = "StateMachine", !.first = "ready",
                      !.name = IF named THEN "prototype" ELSE DefaultName("StateMachine")] :
        named \in BOOLEAN}

CloneInit ==
    /\ cargs \in PrototypeArgs
    /\ thing = NotConstructed
    /\ Fresh
    /\ LET prototype == Construct(cargs)
       IN  IF HasAttr(prototype, "bag")
           THEN /\ counters = <<prototype.bag>>
                /\ objs = <<[prototype EXCEPT !.bag = 1]>>
           ELSE /\ counters = <<>>
                /\ objs = <<prototype>>
    /\ cloned_from = <<0>>
    /\ clone_names = <<None>>
    /\ built = <<[children |-> {}, ret |-> "None"]>>
    /\ held = {1}
    /\ walking = Idle

\* the clones made so far
Clones == {j \in DOMAIN objs : cloned_from[j] # 0}

\* c = objs[i].clone(name), c is kept
clone(i, name) ==
    /\ Cardinality(Clones) < MaxClones
    /\ i \in held
    /\ ~walking.active
    /\ objs' = Append(objs, clone_of(objs[i], name))
    /\ cloned_from' = Append(cloned_from, i)
    /\ clone_names' = Append(clone_names, name)
    /\ built' = Append(built, [children |-> {}, ret |-> "None"])
    /\ held' = held \cup {Len(objs) + 1}
    /\ walking' = Idle
    /\ last' = [op |-> "clone", arg |-> [obj |-> i], before |-> Bags, events |-> events]
    /\ UNCHANGED <<cargs, thing, ret, events, counters>>
    /\ UNCHANGED dvars

\* objs[i].bag[token] = n: the token is added or its count changed
bag_setitem(i, token, n) ==
    /\ HasAttr(objs[i], "bag")
    /\ counters' = [counters EXCEPT
                       ![objs[i].bag] = Update(@, [k \in {token} |-> n])]
    /\ last' = [op |-> "bag_setitem", arg |-> [obj |-> i], before |-> Bags,
                events |-> events]
    /\ UNCHANGED <<cargs, thing, ret, events, objs, cloned_from, clone_names, built,
                   held, walking>>
    /\ UNCHANGED dvars

\* del objs[i].bag[token]: the token is removed
bag_delitem(i, token) ==
    /\ HasAttr(objs[i], "bag")
    /\ token \in DOMAIN BagOf(i)
    /\ counters' = [counters EXCEPT
                       ![objs[i].bag] = [k \in DOMAIN @ \ {token} |-> @[k]]]
    /\ last' = [op |-> "bag_delitem", arg |-> [obj |-> i], before |-> Bags,
                events |-> events]
    /\ UNCHANGED <<cargs, thing, ret, events, objs, cloned_from, clone_names, built,
                   held, walking>>
    /\ UNCHANGED dvars

CloneNext ==
    \/ \E i \in DOMAIN objs, name \in {None, "copy"} : clone(i, name)
    \/ \E i \in DOMAIN objs, token \in OF, n \in 0..MaxCount : bag_setitem(i, token, n)
    \/ \E i \in DOMAIN objs, token \in OF : bag_delitem(i, token)

SpecClone == CloneInit /\ [][CloneNext]_vars

----------------------------------------------------------------------------
(* Trees.  The children attribute of a machine is a WeakSet of machines, the  *)
(* parent attribute a weakref proxy: objs is the heap, a machine is referred  *)
(* to by its number in objs, and an object lives as long as it is reachable   *)
(* over strong references from what the program holds.                       *)

\* a faulty StrongRefs: children is a set, which keeps its members alive
StrongRefsChildren(o) == o.children

\* the objects an object keeps alive: WeakSet(children) and proxy(self) keep none
StrongRefs(o) == {}

\* the objects reachable from roots over strong references
RECURSIVE AliveFrom(_, _)
AliveFrom(roots, heap) ==
    LET more == roots \cup UNION {StrongRefs(heap[i]) : i \in roots}
    IN  IF more = roots THEN roots ELSE AliveFrom(more, heap)

\* the objects that have not been destroyed
Alive == AliveFrom(held, objs)

\* what is left of an object that was destroyed
Destroyed == [kind |-> "destroyed"]

\* the heap after the objects outside alive were destroyed: a WeakSet drops a
\* member that is destroyed
Sweep(heap, alive) ==
    [i \in DOMAIN heap |->
        IF i \in alive THEN [heap[i] EXCEPT !.children = @ \cap alive] ELSE Destroyed]

\* what a use of an attribute that is None or a proxy of an object gives: None,
\* the object, or the ReferenceError of a proxy whose object was destroyed
Dead == -1

Deref(ref) == IF ref = NoRef THEN NoRef ELSE IF ref \in Alive THEN ref ELSE Dead

\* the children that print(c) fails on: TraitMachine.__str__ returns self.name,
\* which print takes only if it is a string
Unprintable(heap, C) == {c \in C : heap[c].name = Uuid1Function}

\* the sets of children the loop of TraitMachine.__init__ can reach in the
\* iteration order of the WeakSet: all of them, or some of the printable ones
\* before print raises on an unprintable one
Visits(heap, C) ==
    IF Unprintable(heap, C) = {} THEN {C} ELSE SUBSET (C \ Unprintable(heap, C))

\* a faulty Wire: a child that has a parent keeps it
WireFirstParent(heap, self, C) ==
    [i \in DOMAIN heap |->
        IF i \in C /\ heap[i].parent = NoRef THEN [heap[i] EXCEPT !.parent = self]
        ELSE heap[i]]

\* a faulty Wire: the child also takes the new machine among its children
WireBoth(heap, self, C) ==
    [i \in DOMAIN heap |->
        IF i \in C THEN [heap[i] EXCEPT !.parent = self, !.children = @ \cup {self}]
        ELSE heap[i]]

\* for c in self.children: c.parent = proxy(self)
Wire(heap, self, C) ==
    [i \in DOMAIN heap |-> IF i \in C THEN [heap[i] EXCEPT !.parent = self] ELSE heap[i]]

\* m = TraitMachine(states={}, first=IS.ready, children=C): the machine is built
\* with a Counter of its own, the warning is emitted, the children are given
\* their parent; if print raises, the machine is not kept
new_machine(C) ==
    /\ Len(objs) < MaxNodes
    /\ ~walking.active
    /\ C \subseteq Alive
    /\ LET self == Len(objs) + 1
           m    == [TraitMachineInit([cargs EXCEPT !.children = C])
                        EXCEPT !.bag = Len(counters) + 1]
       IN  /\ ret' = IF Unprintable(objs, C) = {} THEN "None" ELSE "TypeError"
           /\ held' = IF ret' = "None" THEN held \cup {self} ELSE held
           /\ \E visited \in Visits(objs, C) :
                  objs' = Sweep(Wire(Append(objs, m), self, visited),
                                AliveFrom(held', Append(objs, m)))
           /\ events' = Warned(m, events)
    /\ counters' = Append(counters, Counter(cargs.bag))
    /\ cloned_from' = Append(cloned_from, 0)
    /\ clone_names' = Append(clone_names, None)
    /\ built' = Append(built, [children |-> C, ret |-> ret'])
    /\ walking' = Idle
    /\ last' = [op |-> "TraitMachine", arg |-> [children |-> C], before |-> None,
                events |-> events]
    /\ UNCHANGED <<cargs, thing>>
    /\ UNCHANGED dvars

\* del x: the program gives up its reference to object i; what is no longer
\* alive is destroyed
drop(i) ==
    /\ Cardinality({j \in DOMAIN objs : j \notin held /\ built[j].ret = "None"}) < MaxDrops
    /\ i \in held
    /\ ~walking.active
    /\ held' = held \ {i}
    /\ objs' = Sweep(objs, AliveFrom(held', objs))
    /\ walking' = Idle
    /\ last' = [op |-> "drop", arg |-> i, before |-> None, events |-> events]
    /\ UNCHANGED <<cargs, thing, ret, events, counters, cloned_from, clone_names, built>>
    /\ UNCHANGED dvars

\* a faulty ChildrenToVisit: a node that was yielded is not visited again
ChildrenNotSeen(children, out) == children \ Range(out)

\* for child in node.children: every child, whatever has been yielded
ChildrenToVisit(children, out) == children

\* the frame of walk(node) after its yield node: the children the for loop has
\* still to visit.  The WeakSet gives them in an order of its own, which shows
\* as the loop goes on.
Frame(node, out) ==
    [node |-> node, todo |-> ChildrenToVisit(objs[node].children, out)]

\* the frames left when the generators that have no child left have returned
RECURSIVE Unwind(_)
Unwind(stack) ==
    IF stack = <<>> \/ stack[Len(stack)].todo # {} THEN stack
    ELSE Unwind(SubSeq(stack, 1, Len(stack) - 1))

\* g = walk(root); next(g): yield node
walk_start(root) ==
    /\ root \in Alive
    /\ ~walking.active
    /\ walking' = [active |-> TRUE, root |-> root, stack |-> <<Frame(root, <<>>)>>,
                   out |-> <<root>>]
    /\ last' = [op |-> "walk", arg |-> root, before |-> None, events |-> events]
    /\ UNCHANGED <<cargs, thing, ret, events, objs, counters, cloned_from, clone_names,
                   built, held>>
    /\ UNCHANGED dvars

\* next(g): the innermost generator with a child left enters walk(child), which
\* yields the child; with no child left anywhere g is exhausted
walk_next ==
    /\ walking.active
    /\ LET stack == Unwind(walking.stack)
           top   == Len(stack)
       IN  IF stack = <<>>
           THEN walking' = [walking EXCEPT !.active = FALSE, !.stack = <<>>]
           ELSE \E child \in stack[top].todo :
                    LET out == Append(walking.out, child)
                    IN  walking' = [walking EXCEPT
                            !.stack = Append([stack EXCEPT ![top].todo = @ \ {child}],
                                             Frame(child, out)),
                            !.out = out]
    /\ last' = [op |-> "next", arg |-> walking.root, before |-> None, events |-> events]
    /\ UNCHANGED <<cargs, thing, ret, events, objs, counters, cloned_from, clone_names,
                   built, held>>
    /\ UNCHANGED dvars

TreeInit ==
    /\ cargs = [Defaults EXCEPT !.first = "ready"]
    /\ thing = NotConstructed
    /\ Fresh
    /\ NoClones

\* trees of constructed machines and their clones are built and walked
TreeNext ==
    \/ \E C \in SUBSET Alive : new_machine(C)
    \/ \E i \in Alive, name \in {None, "copy"} :
           Len(objs) < MaxNodes /\ Cardinality(Clones) < MaxCopies /\ clone(i, name)
    \/ \E root \in Alive : walk_start(root)
    \/ walk_next

SpecTree == TreeInit /\ [][TreeNext]_vars

\* trees are built and walked while the program gives up references
WeakNext ==
    \/ \E C \in SUBSET Alive : new_machine(C)
    \/ \E i \in held : drop(i)
    \/ \E root \in Alive : walk_start(root)
    \/ walk_next

SpecWeak == TreeInit /\ [][WeakNext]_vars

----------------------------------------------------------------------------
(* Claims about flux_to (checked under Spec) *)

\* the state and the table flux_to was called in
CalledIn == last.before

\* C1: flux_to(t) called in state s, a key of the table T, returns true and sets
\* state to t if and only if t is in T[s]; otherwise it returns false and state is
\* still s.  So flux_to(s) in state s succeeds only when s is listed in T[s].
C1_TransitionSoundness ==
    (last.op = "flux_to" /\ CalledIn.state \in DOMAIN CalledIn.states) =>
        IF last.arg \in CalledIn.states[CalledIn.state]
        THEN ret = "True" /\ thing.state = last.arg
        ELSE ret = "False" /\ thing.state = CalledIn.state

\* a self-transition that the table does not list was refused
C1_Witness ==
    /\ last.op = "flux_to"
    /\ CalledIn.state \in DOMAIN CalledIn.states
    /\ last.arg = CalledIn.state
    /\ last.arg \notin CalledIn.states[CalledIn.state]
    /\ CalledIn.states[CalledIn.state] # {}
    /\ ret = "False"

\* C2: in every reachable state of a machine, right after construction and after
\* every flux_to, the current state is a key of the transition table.
C2_StateIsKey ==
    thing.kind \in Machines => thing.state \in DOMAIN thing.states

\* C4: a machine constructed with a final state f maps f to the empty successor
\* set whatever table is passed, and every flux_to called in state f returns
\* false and leaves state f.
C4_FinalAbsorbs ==
    (thing.kind \in Machines /\ cargs.final # None) =>
        /\ thing.states[cargs.final] = {}
        /\ (last.op = "flux_to" /\ CalledIn.state = cargs.final) =>
               (ret = "False" /\ thing.state = cargs.final)

\* C9: flux_to never raises: in every reachable state and for every target it
\* returns true or false.
C9_FluxToNeverRaises ==
    last.op = "flux_to" => ret \in {"True", "False"}

----------------------------------------------------------------------------
(* Claims about trait machines and the gate (checked under SpecGate) *)

\* C3: in every reachable state of a TraitMachine traits is stateless_traits
\* united with stateful_traits.get(state, {}), and a flux_to that did not succeed
\* left traits as they were.
C3_TraitsRecomputed ==
    thing.kind = "TraitMachine" =>
        /\ thing.traits =
               thing.stateless_traits \cup Get(thing.stateful_traits, thing.state, {})
        /\ (last.op = "flux_to" /\ ret # "True") => thing.traits = CalledIn.traits

\* a successful flux_to into a state without an overlay took traits away
C3_Witness ==
    /\ thing.kind = "TraitMachine"
    /\ last.op = "flux_to"
    /\ ret = "True"
    /\ thing.state \notin DOMAIN thing.stateful_traits
    /\ thing.stateless_traits # {}
    /\ thing.traits # CalledIn.traits

\* C5: a call of the behaviour wrapped by can(token) on a TraitMachine invokes the
\* behaviour exactly once on the target if token is in the target's traits at the
\* moment of the call; otherwise it invokes it zero times, leaves the target
\* unchanged and emits exactly one diagnostic.
C5_GateExactlyOnce ==
    (last.op = "destroy" /\ CalledIn.kind = "TraitMachine") =>
        IF last.arg \in CalledIn.traits
        THEN /\ events = Append(last.events, "invoke")
             /\ thing = destroy(CalledIn).thing
        ELSE /\ events = Append(last.events, "warn")
             /\ thing = CalledIn
             /\ ret = "None"

\* refused, then performed once after flux_to moved the target into a state whose
\* overlay has the token, then refused again after the target left that state
C5_Witness ==
    /\ thing.kind = "TraitMachine"
    /\ last.op = "destroy"
    /\ events = <<"warn", "invoke", "warn">>

\* C10: a refused gated call never raises: for a TraitMachine or a TraitBag whose
\* traits lack the token the call emits the diagnostic and returns.
C10_RefusalNeverRaises ==
    (last.op = "destroy" /\ last.arg \notin CalledIn.traits) =>
        (ret = "None" /\ events = Append(last.events, "warn"))

\* C19 as stated: the effective traits of a TraitMachine never contain a token
\* passed in ex_traits, after construction or any flux_to, even when the overlay
\* of the current state lists the token.
C19_ExcludeAlwaysWins ==
    thing.kind = "TraitMachine" => thing.traits \cap Range(cargs.ex_traits) = {}

\* C19 as the code has it: the excludes are taken from stateless_traits only, so
\* stateless_traits never contain a token passed in ex_traits, and the effective
\* traits contain such a token exactly when the overlay of the current state
\* lists it.
C19_ExcludeWinsOverStateless ==
    thing.kind = "TraitMachine" =>
        /\ thing.stateless_traits \cap Range(cargs.ex_traits) = {}
        /\ thing.traits \cap Range(cargs.ex_traits) =
               Get(thing.stateful_traits, thing.state, {}) \cap Range(cargs.ex_traits)

\* a machine whose includes and excludes both name the token moved by flux_to into
\* the state whose overlay lists the token, and then out of it
C19_Witness ==
    /\ thing.kind = "TraitMachine"
    /\ last.op = "flux_to" /\ ret = "True"
    /\ Range(cargs.in_traits) \cap Range(cargs.ex_traits) # {}
    /\ Range(cargs.ex_traits) \cap CalledIn.traits # {}
    /\ Range(cargs.ex_traits) \cap thing.traits = {}

----------------------------------------------------------------------------
(* Claims about construction (checked under SpecConstruct) *)

\* the trait set of every state, as the constructor stored them
StateTraits == {thing.stateful_traits[s] : s \in DOMAIN thing.stateful_traits}

\* C12 as stated: the constructor of a TraitMachine emits the no-traits warning
\* exactly when stateless_traits and the trait set of every state are all empty
\* (not when the trait set of some state is non-empty), and construction
\* succeeds either way.
C12_WarnsIffNoTraitsAtAll ==
    thing.kind = "TraitMachine" =>
        (events = Append(last.events, NoTraitsWarning)
            <=> (thing.stateless_traits = {} /\ StateTraits \subseteq {{}}))

\* C12 as the code has it: the constructor emits the warning exactly when the
\* traits it computed, stateless_traits united with the trait set of the first
\* state, are empty: always when every trait set is empty, and also when only
\* other states have traits.  Construction succeeds either way.
C12_WarnsIffNoTraitsAtFirst ==
    (last.op = "TraitMachine" /\ thing.kind = "TraitMachine") =>
        /\ thing.state = cargs.first
        /\ IF thing.stateless_traits \cup Get(thing.stateful_traits, cargs.first, {}) = {}
           THEN events = Append(last.events, NoTraitsWarning)
           ELSE events = last.events
        /\ (thing.stateless_traits = {} /\ StateTraits \subseteq {{}}) =>
               events = Append(last.events, NoTraitsWarning)

\* the warning for a machine whose first state has no traits while another has
C12_Witness ==
    /\ last.op = "TraitMachine"
    /\ thing.kind = "TraitMachine"
    /\ events = <<NoTraitsWarning>>
    /\ thing.stateless_traits = {}
    /\ \E s \in DOMAIN thing.stateful_traits : thing.stateful_traits[s] # {}

----------------------------------------------------------------------------
(* Claims about composition (checked under SpecCompose) *)

\* the composed set: traits of a TraitBag, stateless_traits of a TraitMachine
Composed == IF thing.kind = "TraitBag" THEN thing.traits ELSE thing.stateless_traits

Reverse(s) == [i \in 1..Len(s) |-> s[Len(s) + 1 - i]]

\* C7: the traits of a constructed TraitBag and the stateless_traits of a
\* constructed TraitMachine are (the union of the stereotypes, united with the
\* includes) minus the excludes: no excluded token is in the result, and the
\* stereotypes in the opposite order give the same result.
C7_Composition ==
    thing.kind \in {"TraitBag", "TraitMachine"} =>
        /\ Composed = (UNION Range(cargs.stereotypes) \cup Range(cargs.in_traits))
                          \ Range(cargs.ex_traits)
        /\ Composed \cap Range(cargs.ex_traits) = {}
        /\ Composed = Construct([cargs EXCEPT !.stereotypes = Reverse(@),
                                              !.cls = "TraitBag"]).traits

\* two different stereotypes that share a token, and an excluded token that a
\* stereotype and the includes both bring in
C7_Witness ==
    /\ thing.kind = "TraitMachine"
    /\ Len(cargs.stereotypes) = 2
    /\ cargs.stereotypes[1] # cargs.stereotypes[2]
    /\ cargs.stereotypes[1] \cap cargs.stereotypes[2] # {}
    /\ Range(cargs.ex_traits) \cap Range(cargs.in_traits) \cap cargs.stereotypes[2] # {}
    /\ Composed # {}

----------------------------------------------------------------------------
(* Claims about the names of clones (checked under SpecClone) *)

\* the clones made by clone() without a name
Unnamed == {i \in DOMAIN objs : cloned_from[i] # 0 /\ clone_names[i] = None}

\* C14: for TraitBag, StateMachine and TraitMachine alike, clone(name) returns a
\* copy whose label is name, and clone() without a name a copy whose label is
\* new: different from the label of the original and from the label of every
\* other clone made without a name.
C14_CloneLabels ==
    \A i \in DOMAIN objs :
        cloned_from[i] # 0 =>
            IF clone_names[i] # None
            THEN objs[i].name = clone_names[i]
            ELSE /\ objs[i].name # objs[cloned_from[i]].name
                 /\ \A j \in Unnamed \ {i} : objs[j].name # objs[i].name

----------------------------------------------------------------------------
(* Claims about dispatch (checked under SpecDispatch) *)

\* the functions decorated in the style of the last call, for its method if it
\* has one, with exactly the trait set S
RegisteredFor(style, S) ==
    {i \in DOMAIN funcs :
        /\ funcs[i].style = style
        /\ style = "mdispatch" => funcs[i].qualname = last.arg.qualname
        /\ funcs[i].traits = S}

StyleOf(op) == IF op = "fcall" THEN "fdispatch" ELSE "mdispatch"

\* C6: dispatch matches by exact set equality, whatever the order of the tokens:
\* a call whose first argument has the tokens S invokes a function registered for
\* exactly S (never one registered for another set, such as a subset), and with no
\* function registered for exactly S it raises KeyError and invokes nothing.
C6_ExactSetDispatch ==
    last.op \in {"fcall", "mcall"} =>
        LET exact == RegisteredFor(StyleOf(last.op), last.arg.traits)
        IN  IF exact = {}
            THEN ran = 0 /\ ret = "KeyError"
            ELSE ran \in exact /\ ret = "None"

\* with functions for {destroyed} and {destroyed, selected}, the call with
\* {destroyed, selected} ran the second
C6_Witness ==
    /\ last.op = "fcall"
    /\ Len(funcs) = 2
    /\ funcs[1].style = "fdispatch" /\ funcs[1].traits = {"destroyed"}
    /\ funcs[2].style = "fdispatch" /\ funcs[2].traits = {"destroyed", "selected"}
    /\ last.arg.traits = {"destroyed", "selected"}
    /\ ran = 2

----------------------------------------------------------------------------
(* Claims about clones (checked under SpecClone) *)

\* x and c = x.clone(), in either order
CloneAndOriginal(i, j) == cloned_from[i] = j \/ cloned_from[j] = i

\* C8: for x and c = x.clone(), a mutation of c.bag (a token added, removed or
\* its count changed) leaves x.bag unchanged, and a mutation of x.bag leaves c.bag
\* unchanged.
C8_CloneIndependence ==
    last.op \in {"bag_setitem", "bag_delitem"} =>
        \A i \in DOMAIN objs :
            (i # last.arg.obj /\ CloneAndOriginal(i, last.arg.obj)) =>
                BagOf(i) = last.before[i]

\* the methods named q that mdispatch decorated for exactly the trait set S
MethodsFor(q, S) ==
    {i \in DOMAIN funcs :
        funcs[i].style = "mdispatch" /\ funcs[i].qualname = q /\ funcs[i].traits = S}

\* C13: two differently named method-style operations keep separate tables: when
\* both are registered for the same trait set S, in either order, a call of one
\* of them with S invokes an implementation of that operation, never one of the
\* other.
C13_SeparateTables ==
    last.op = "mcall" =>
        /\ ran # 0 => funcs[ran].style = "mdispatch" /\ funcs[ran].qualname = last.via
        /\ MethodsFor(last.via, last.arg.traits) # {} =>
               ran \in MethodsFor(last.via, last.arg.traits)

\* P, then Q, registered for the same set; the call of P ran the implementation
\* of P although Q was registered later
C13_Witness ==
    /\ last.op = "mcall"
    /\ last.via = "P"
    /\ Len(funcs) = 2
    /\ funcs[1] = [style |-> "mdispatch", qualname |-> "P", traits |-> last.arg.traits]
    /\ funcs[2] = [style |-> "mdispatch", qualname |-> "Q", traits |-> last.arg.traits]
    /\ ran = 1

\* C16: a dispatch call returns to its caller the result of the implementation
\* it selected.
C16_ResultReturned ==
    (last.op \in {"fcall", "mcall"} /\ ran # 0) => ret = ReturnOf(funcs[ran])

\* the free functions that fdispatch decorated for exactly the trait set S
FunctionsFor(S) ==
    {i \in DOMAIN funcs : funcs[i].style = "fdispatch" /\ funcs[i].traits = S}

\* C20: the registry of free functions holds one implementation per exact trait
\* set, shared by all dispatchers that fdispatch made: a call through any of them
\* with the set S invokes the implementation most recently registered for S, also
\* when that one was registered under another name than the dispatcher called,
\* and no earlier registration for S.
C20_LastRegistrationWins ==
    last.op = "fcall" =>
        LET regs == FunctionsFor(last.arg.traits)
        IN  regs # {} => (ran \in regs /\ \A i \in regs : i <= ran)

\* P, then Q, decorated for the same set; the call through the dispatcher of P
\* ran the implementation of Q
C20_Witness ==
    /\ last.op = "fcall"
    /\ last.via = "P"
    /\ Len(funcs) = 2
    /\ funcs[1] = [style |-> "fdispatch", qualname |-> "P", traits |-> last.arg.traits]
    /\ funcs[2] = [style |-> "fdispatch", qualname |-> "Q", traits |-> last.arg.traits]
    /\ ran = 2

----------------------------------------------------------------------------
(* Claims about trees (checked under SpecTree) *)

\* how often x is in seq
Count(seq, x) == Cardinality({i \in DOMAIN seq : seq[i] = x})

\* the generator of the last walk is exhausted
Exhausted == walking.root # 0 /\ ~walking.active

\* the number of paths over children from machine n to machine m
RECURSIVE PathsTo(_, _)
RECURSIVE PathsFrom(_, _)
PathsFrom(S, m) ==
    IF S = {} THEN 0
    ELSE LET c == CHOOSE x \in S : TRUE
         IN  PathsTo(c, m) + PathsFrom(S \ {c}, m)

PathsTo(n, m) == IF n = m THEN 1 ELSE PathsFrom(objs[n].children, m)

\* the pre-order sequences of the tree under n: n, then for each child, in some
\* order of the children, the whole pre-order sequence of that child
RECURSIVE WalksOf(_)
RECURSIVE WalksThrough(_)
WalksThrough(S) ==
    IF S = {} THEN {<<>>}
    ELSE UNION {{w \o rest : w \in WalksOf(c), rest \in WalksThrough(S \ {c})} : c \in S}

WalksOf(n) == {<<n>> \o w : w \in WalksThrough(objs[n].children)}

\* C11: walk(root) yields root first, then for each child the complete walk of
\* that child before any node of another child (pre-order, depth first): a
\* childless machine yields one node, a machine with two children of which one
\* has a child yields four, and a node reachable from root over k different
\* paths is yielded k times.  Every call of walk is a traversal of its own.
C11_PreOrder ==
    /\ walking.root # 0 => walking.out[1] = walking.root
    /\ Exhausted =>
           /\ walking.out \in WalksOf(walking.root)
           /\ \A n \in DOMAIN objs : Count(walking.out, n) = PathsTo(walking.root, n)
           /\ objs[walking.root].children = {} => walking.out = <<walking.root>>

\* the walk of a machine with two children that share a child: five nodes, the
\* shared one twice
C11_Witness ==
    /\ Exhausted
    /\ Cardinality(objs[walking.root].children) = 2
    /\ Len(walking.out) = 5
    /\ \E n \in DOMAIN objs : Count(walking.out, n) = 2

\* the constructor calls that listed machine c as a child
ListedBy(c) == {p \in DOMAIN objs : c \in built[p].children}

\* the latest of the machines ps
Latest(ps) == CHOOSE p \in ps : \A q \in ps : q <= p

RECURSIVE Below(_)
Below(S) ==
    LET more == S \cup UNION {objs[i].children : i \in S}
    IN  IF more = S THEN S ELSE Below(more)

\* the number of nodes a walk of n yields: n and the yields of its children
RECURSIVE Yields(_)
RECURSIVE YieldsOf(_)
YieldsOf(S) ==
    IF S = {} THEN 0
    ELSE LET c == CHOOSE x \in S : TRUE IN Yields(c) + YieldsOf(S \ {c})

Yields(n) == 1 + YieldsOf(objs[n].children)

\* C18: every children graph that constructors and clone build is acyclic, no
\* machine is below itself, so a walk ends: it yields no more nodes than there
\* are paths from its root, and when it is exhausted it has yielded that many.
C18_AcyclicWalkEnds ==
    /\ \A n \in Alive : n \notin Below(objs[n].children)
    /\ walking.root # 0 =>
           /\ Len(walking.out) <= Yields(walking.root)
           /\ Len(walking.stack) <= Cardinality(Alive)
           /\ Exhausted => Len(walking.out) = Yields(walking.root)

\* the walk of a machine constructed over the clone of a parent ended
C18_Witness ==
    /\ Exhausted
    /\ \E k \in objs[walking.root].children :
           cloned_from[k] # 0 /\ objs[k].children # {}
    /\ Len(walking.out) = 3

----------------------------------------------------------------------------
(* Claims about the lifetime of machines (checked under SpecWeak) *)

\* C17: the parent and children relation owns nothing in either direction.  Once
\* the program has given up every reference to a child, the child is destroyed,
\* it is a member of no machine's children and no walk yields it; once it has
\* given up every reference to a parent, the parent is destroyed and the parent
\* attribute of its children refers to nothing.
C17_NonOwning ==
    /\ Alive = held
    /\ \A i \in Alive : objs[i].children \subseteq Alive
    /\ walking.root # 0 => Range(walking.out) \subseteq Alive
    /\ last.op = "drop" =>
           /\ objs[last.arg] = Destroyed
           /\ \A c \in Alive :
                  /\ last.arg \notin objs[c].children
                  /\ objs[c].parent = last.arg => Deref(objs[c].parent) = Dead

\* the walk of a machine whose only child was destroyed yielded the machine alone,
\* and the parent of another machine was destroyed
C17_Witness ==
    /\ Exhausted
    /\ built[walking.root].children # {}
    /\ walking.out = <<walking.root>>
    /\ \E c \in Alive : Deref(objs[c].parent) = Dead

====
